---- MODULE Spec2Model ----
(***************************************************************************)
(* A model of code/1_Data_Collection.py: the record extractor (parse_xml   *)
(* and its field helpers), the incremental writer (save_records_to_csv)    *)
(* and the directory walker with its error log (process_directory).        *)
(*                                                                         *)
(* Two specifications share the operators below.  SpecExtract runs the     *)
(* body of parse_xml's loop on every article of a bounded article space.   *)
(* Spec runs process_directory over bounded directories.                   *)
(***************************************************************************)
EXTENDS Integers, Sequences, FiniteSets, TLC

(* ------------------------------------------------------------------ *)
(* Bounds                                                              *)
(* ------------------------------------------------------------------ *)
\* most MeshHeading children of a MeshHeadingList in the article space
MaxHeadings == 2
\* most Keyword children of a KeywordList in the article space
MaxKeywords == 2
\* most .xml files in a directory the walker lists
MaxFiles == 3

(* ------------------------------------------------------------------ *)
(* Python values                                                       *)
(* ------------------------------------------------------------------ *)
\* Python's None where a string may stand (an element's .text, a field).
None == "<None>"
\* What Element.find returns when no element matches: None.  Elements are
\* records, so the missing element is a record as well.
NoElement == [missing |-> TRUE]
\* No exception.
NoExc == "<no exception>"
\* A local of parse_xml's loop body that is not assigned yet.
Unset == "<unset>"

\* str(x) as an f-string formats it: None prints as the text None.
Str(x) == IF x = None THEN "None" ELSE x

startswith(s, prefix) ==
    Len(s) >= Len(prefix) /\ SubSeq(s, 1, Len(prefix)) = prefix

endswith(s, suffix) ==
    Len(s) >= Len(suffix) /\ SubSeq(s, Len(s) - Len(suffix) + 1, Len(s)) = suffix

DigitChars == <<"0", "1", "2", "3", "4", "5", "6", "7", "8", "9">>

\* str(n) of a natural number
RECURSIVE Decimal(_)
Decimal(n) ==
    IF n < 10 THEN DigitChars[n + 1]
    ELSE Decimal(n \div 10) \o DigitChars[(n % 10) + 1]

\* s padded with zeros on the left to at least width characters
RECURSIVE ZeroPad(_, _)
ZeroPad(s, width) == IF Len(s) >= width THEN s ELSE ZeroPad("0" \o s, width)

\* The message of the TypeError str.join raises on its first item, at index k
\* from 0, that is not a str.  A raise is modelled as the message returned.
TypeErrorAt(k) ==
    "sequence item " \o Decimal(k) \o ": expected str instance, NoneType found"

IsTypeError(x) == startswith(x, "sequence item ")

\* '; '.join(items) of a non-empty list of str
RECURSIVE JoinStrs(_)
JoinStrs(items) ==
    IF Len(items) = 1 THEN Head(items)
    ELSE Head(items) \o "; " \o JoinStrs(Tail(items))

\* '; '.join(items): TypeError when an item is None.
Join(items) ==
    LET bad == {k \in 1..Len(items) : items[k] = None}
    IN  IF bad # {} THEN TypeErrorAt((CHOOSE k \in bad : \A j \in bad : k <= j) - 1)
        ELSE IF items = <<>> THEN "" ELSE JoinStrs(items)

\* all sequences over S of length at most n
SeqsUpTo(S, n) == UNION {[1..k -> S] : k \in 0..n}

(* ------------------------------------------------------------------ *)
(* The article space: what ElementTree hands to parse_xml               *)
(* ------------------------------------------------------------------ *)
\* an element with text, an element without text, no element
Elements(texts) == {NoElement} \cup [text : texts \cup {None}]

PubDates == {NoElement} \cup [Year : Elements({"2024"}), Month : Elements({"Jan"})]

MeshHeadings == [DescriptorName : Elements({"Diabetes Mellitus", "Insulin"})]

MeshHeadingLists ==
    {NoElement} \cup [MeshHeading : SeqsUpTo(MeshHeadings, MaxHeadings)]

KeywordLists ==
    {NoElement} \cup [Keyword : SeqsUpTo([text : {"gene therapy", None}], MaxKeywords)]

\* Each field is the first element the article's XPath lookup finds.
Articles ==
    [PubDate : PubDates,
     ArticleTitle : Elements({"A title"}),
     AbstractText : Elements({"An abstract"}),
     MeshHeadingList : MeshHeadingLists,
     KeywordList : KeywordLists]

(* ------------------------------------------------------------------ *)
(* Field helpers                                                       *)
(* ------------------------------------------------------------------ *)
\* AttributeError is raised by None.find and by None.text only: a Year or
\* Month element without text has .text None, which the f-string formats.
extract_date(pub_date) ==
    IF pub_date = NoElement THEN None
    ELSE IF pub_date.Year = NoElement THEN None
    ELSE IF pub_date.Month = NoElement THEN None
    ELSE Str(pub_date.Year.text) \o "-" \o Str(pub_date.Month.text)

HasDescriptor(mh) == mh.DescriptorName # NoElement
DescriptorText(mh) == mh.DescriptorName.text

\* The filter keeps every heading that has a DescriptorName element, also one
\* without text; the join then raises TypeError.
parse_mesh_headings(mesh_list) ==
    IF mesh_list = NoElement THEN None
    ELSE LET kept == SelectSeq(mesh_list.MeshHeading, HasDescriptor)
             headings == [k \in 1..Len(kept) |-> DescriptorText(kept[k])]
         IN  IF headings # <<>> THEN Join(headings) ELSE None

HasText(kw) == kw.text # None

parse_keywords(keyword_list) ==
    IF keyword_list = NoElement THEN None
    ELSE LET kept == SelectSeq(keyword_list.Keyword, HasText)
             keywords == [k \in 1..Len(kept) |-> kept[k].text]
         IN  IF keywords # <<>> THEN Join(keywords) ELSE None

\* title_element.text if title_element is not None else None
ElementText(element) == IF element # NoElement THEN element.text ELSE None

(* ------------------------------------------------------------------ *)
(* parse_xml                                                           *)
(* ------------------------------------------------------------------ *)
\* What the loop body of parse_xml computes for one article: the five
\* locals.  A field that holds a TypeError message stands for the raise.
Fields(article_) ==
    [Date |-> extract_date(article_.PubDate),
     Title |-> ElementText(article_.ArticleTitle),
     Abstract |-> ElementText(article_.AbstractText),
     MeshHeading |-> parse_mesh_headings(article_.MeshHeadingList),
     Keywords |-> parse_keywords(article_.KeywordList)]

\* The loop body raises exactly when parse_mesh_headings does.
Raises(article_) == IsTypeError(Fields(article_).MeshHeading)

\* A file ElementTree cannot parse, and a parsed root with its PubmedArticle
\* children in document order.
Malformed == [ParseError |-> "not well-formed (invalid token)"]
Root(articles) == [PubmedArticle |-> articles]

\* parse_xml(file_path) on the file's document: what it returns (records)
\* and the exception it lets escape (exc).  ET.ParseError is caught inside:
\* printed, and [] returned.
parse_xml(doc) ==
    IF doc = Malformed THEN [exc |-> NoExc, records |-> <<>>]
    ELSE LET articles == doc.PubmedArticle
             bad == {k \in 1..Len(articles) : Raises(articles[k])}
         IN  IF bad # {}
             THEN [exc |-> Fields(articles[CHOOSE k \in bad : \A j \in bad : k <= j]).MeshHeading,
                   records |-> <<>>]
             ELSE [exc |-> NoExc,
                   records |-> [k \in 1..Len(articles) |-> Fields(articles[k])]]

(* ------------------------------------------------------------------ *)
(* save_records_to_csv                                                 *)
(* ------------------------------------------------------------------ *)
\* A file on disk: whether it exists, and its lines in order.
AbsentFile == [exists |-> FALSE, lines |-> <<>>]

\* The header to_csv writes: the DataFrame's columns, the keys of the record
\* dicts in insertion order.
Header == <<"Date", "Title", "Abstract", "MeshHeading", "Keywords">>

\* to_csv writes a missing value as the empty field.
CsvField(v) == IF v = None THEN "" ELSE v

CsvRow(r) ==
    <<CsvField(r.Date), CsvField(r.Title), CsvField(r.Abstract),
      CsvField(r.MeshHeading), CsvField(r.Keywords)>>

CsvRows(recs) == [k \in 1..Len(recs) |-> CsvRow(recs[k])]

\* The writer with header=False forgotten on the append.
save_records_to_csv_header_always(recs, output_file) ==
    [exists |-> TRUE, lines |-> output_file.lines \o <<Header>> \o CsvRows(recs)]

\* The writer with mode='a' forgotten: every call rewrites the destination.
save_records_to_csv_truncating(recs, output_file) ==
    [exists |-> TRUE, lines |-> <<Header>> \o CsvRows(recs)]

\* The destination after save_records_to_csv(records, output_file) when the
\* destination can be opened.
save_records_to_csv(recs, output_file) ==
    IF ~output_file.exists
    THEN [exists |-> TRUE, lines |-> <<Header>> \o CsvRows(recs)]
    ELSE [exists |-> TRUE, lines |-> output_file.lines \o CsvRows(recs)]

\* What open() raises when the destination cannot be opened for writing.
PermissionError == "[Errno 13] Permission denied: 'data/output_file.csv'"

(* ------------------------------------------------------------------ *)
(* The directories process_directory walks                             *)
(* ------------------------------------------------------------------ *)
directory_path == "data"

\* The file names a directory may hold, in the order sorted() puts them
\* (str order, by code point): names before the dataset's, the dataset's
\* numbered files, and a file that is not .xml.
NamePool ==
    <<"a.xml", "pubmed24n0000.xml", "pubmed24n0001.xml",
      "pubmed24n0001.xml.md5", "pubmed24n0002.xml">>

Names == {NamePool[k] : k \in DOMAIN NamePool}

\* sorted(os.listdir(directory_path))
sorted_listdir(dir_files) == SelectSeq(NamePool, LAMBDA n : n \in dir_files)

IsXml(name) == endswith(name, ".xml")

\* start_number=None, the parameter's default
NoStart == -1

StartNumbers == {NoStart, 0, 1, 2}

\* f'pubmed24n{start_number:04d}'
StartPrefix(n) == "pubmed24n" \o ZeroPad(Decimal(n), 4)

\* The start decision with the marker ignored.
InitStartProcessing_always(n) == TRUE

\* The start decision as "start_number is not None" would make it.
InitStartProcessing_is_none(n) == n = NoStart

\* start_processing = False if start_number else True: None and 0 are falsy.
InitStartProcessing(n) == IF n # NoStart /\ n # 0 THEN FALSE ELSE TRUE

\* os.path.join(directory_path, filename)
FilePath(name) == directory_path \o "/" \o name

\* f"Error processing {file_path}: {e}"
error_message(file_path, e) == "Error processing " \o file_path \o ": " \o e

\* The sidecar opened with 'a' instead of 'w'.
write_error_log_appending(log, error_log_file) ==
    [exists |-> TRUE,
     lines |-> error_log_file.lines \o [k \in 1..Len(log) |-> log[k] \o "\n"]]

\* The sidecar after open(error_log_file, 'w'), which truncates it, and one
\* write per entry.
write_error_log(log, error_log_file) ==
    [exists |-> TRUE, lines |-> [k \in 1..Len(log) |-> log[k] \o "\n"]]

\* The articles of the documents the walker reads: one with every field, one
\* with none, one whose descriptor name has no text.
FullArticle ==
    [PubDate |-> [Year |-> [text |-> "2024"], Month |-> [text |-> "Jan"]],
     ArticleTitle |-> [text |-> "A title"],
     AbstractText |-> [text |-> "An abstract"],
     MeshHeadingList |->
         [MeshHeading |-> <<[DescriptorName |-> [text |-> "Diabetes Mellitus"]],
                            [DescriptorName |-> [text |-> "Insulin"]]>>],
     KeywordList |-> [Keyword |-> <<[text |-> None], [text |-> "gene therapy"]>>]]

BareArticle ==
    [PubDate |-> NoElement, ArticleTitle |-> NoElement, AbstractText |-> NoElement,
     MeshHeadingList |-> NoElement, KeywordList |-> NoElement]

EmptyDescriptorArticle ==
    [BareArticle EXCEPT !.MeshHeadingList =
        [MeshHeading |-> <<[DescriptorName |-> [text |-> None]]>>]]

\* The documents of the files the walker reads: one that does not parse, one
\* without articles, one and two articles that yield records, and one whose
\* second article makes parse_xml raise.
Documents ==
    {Malformed,
     Root(<<>>),
     Root(<<FullArticle>>),
     Root(<<BareArticle, FullArticle>>),
     Root(<<FullArticle, EmptyDescriptorArticle>>)}

\* What a previous run left behind.
PriorCsv == save_records_to_csv(<<Fields(BareArticle)>>, AbsentFile)
PriorSidecar ==
    write_error_log(<<error_message(FilePath("pubmed24n0001.xml"), PermissionError)>>,
                    AbsentFile)

(* ------------------------------------------------------------------ *)
(* State                                                               *)
(* ------------------------------------------------------------------ *)
VARIABLES
    \* process_directory: its inputs,
    files,             \* the names os.listdir returns
    content,           \* the document of each .xml file
    start_number,
    csv0,              \* output_csv_file as the run found it
    sidecar0,          \* error_log.txt as the run found it
    \* the files it writes,
    csv,
    sidecar,
    \* its locals,
    pc,
    i,                 \* position of the for loop in the sorted listing
    start_processing,
    error_log,
    records,           \* the last value parse_xml returned to line 89 ([] before)
    \* and what it has called so far:
    parsed,            \* the file names passed to parse_xml, in order
    calls,             \* the calls of save_records_to_csv, in order
    tested,            \* the file names the prefix test was applied to
    \* parse_xml's loop body on one article: its input and its locals
    article,
    step,
    date,
    title,
    abstract,
    mesh_headings,
    keywords,
    record

walk_vars ==
    <<files, content, start_number, csv0, sidecar0, csv, sidecar, pc, i,
      start_processing, error_log, records, parsed, calls, tested>>

extract_vars == <<article, step, date, title, abstract, mesh_headings, keywords, record>>

vars == <<walk_vars, extract_vars>>

(* ------------------------------------------------------------------ *)
(* parse_xml's loop body, statement by statement                       *)
(* ------------------------------------------------------------------ *)
ExtractIdle ==
    /\ article = BareArticle
    /\ step = "idle"
    /\ date = Unset /\ title = Unset /\ abstract = Unset
    /\ mesh_headings = Unset /\ keywords = Unset /\ record = Unset

WalkIdle ==
    /\ files = {} /\ content = <<>> /\ start_number = NoStart
    /\ csv0 = AbsentFile /\ sidecar0 = AbsentFile
    /\ csv = AbsentFile /\ sidecar = AbsentFile
    /\ pc = "idle" /\ i = 1 /\ start_processing = TRUE
    /\ error_log = <<>> /\ records = <<>>
    /\ parsed = <<>> /\ calls = <<>> /\ tested = {}

InitExtract ==
    /\ article \in Articles
    /\ step = "date"
    /\ date = Unset /\ title = Unset /\ abstract = Unset
    /\ mesh_headings = Unset /\ keywords = Unset /\ record = Unset
    /\ WalkIdle

\* date = extract_date(date_element)
ExtractDate ==
    /\ step = "date"
    /\ date' = extract_date(article.PubDate)
    /\ step' = "title"
    /\ UNCHANGED <<article, title, abstract, mesh_headings, keywords, record, walk_vars>>

\* title = title_element.text if title_element is not None else None
ExtractTitle ==
    /\ step = "title"
    /\ title' = ElementText(article.ArticleTitle)
    /\ step' = "abstract"
    /\ UNCHANGED <<article, date, abstract, mesh_headings, keywords, record, walk_vars>>

\* abstract = abstract_element.text if abstract_element is not None else None
ExtractAbstract ==
    /\ step = "abstract"
    /\ abstract' = ElementText(article.AbstractText)
    /\ step' = "mesh"
    /\ UNCHANGED <<article, date, title, mesh_headings, keywords, record, walk_vars>>

\* mesh_headings = parse_mesh_headings(mesh_list_element), which returns
ExtractMesh ==
    /\ step = "mesh"
    /\ ~IsTypeError(parse_mesh_headings(article.MeshHeadingList))
    /\ mesh_headings' = parse_mesh_headings(article.MeshHeadingList)
    /\ step' = "keywords"
    /\ UNCHANGED <<article, date, title, abstract, keywords, record, walk_vars>>

\* or raises: the TypeError leaves parse_xml, and no record is built.
ExtractMeshRaises ==
    /\ step = "mesh"
    /\ IsTypeError(parse_mesh_headings(article.MeshHeadingList))
    /\ step' = "raised"
    /\ UNCHANGED <<article, date, title, abstract, mesh_headings, keywords, record, walk_vars>>

\* keywords = parse_keywords(keyword_list_element)
ExtractKeywords ==
    /\ step = "keywords"
    /\ keywords' = parse_keywords(article.KeywordList)
    /\ step' = "append"
    /\ UNCHANGED <<article, date, title, abstract, mesh_headings, record, walk_vars>>

\* records.append({...})
AppendRecord ==
    /\ step = "append"
    /\ record' = [Date |-> date, Title |-> title, Abstract |-> abstract,
                  MeshHeading |-> mesh_headings, Keywords |-> keywords]
    /\ step' = "appended"
    /\ UNCHANGED <<article, date, title, abstract, mesh_headings, keywords, walk_vars>>

NextExtract ==
    \/ ExtractDate
    \/ ExtractTitle
    \/ ExtractAbstract
    \/ ExtractMesh
    \/ ExtractMeshRaises
    \/ ExtractKeywords
    \/ AppendRecord

SpecExtract == InitExtract /\ [][NextExtract]_vars

(* ------------------------------------------------------------------ *)
(* process_directory                                                   *)
(* ------------------------------------------------------------------ *)
XmlNames(dir_files) == {n \in dir_files : IsXml(n)}

Init ==
    /\ files \in {d \in SUBSET Names : Cardinality(XmlNames(d)) <= MaxFiles}
    /\ content \in [XmlNames(files) -> Documents]
    /\ start_number \in StartNumbers
    /\ csv0 \in {AbsentFile, PriorCsv}
    /\ sidecar0 \in {AbsentFile, PriorSidecar}
    /\ csv = csv0
    /\ sidecar = sidecar0
    /\ pc = "walk"
    /\ i = 1
    /\ start_processing = InitStartProcessing(start_number)
    /\ error_log = <<>>
    /\ records = <<>>
    /\ parsed = <<>> /\ calls = <<>> /\ tested = {}
    /\ ExtractIdle

Listing == sorted_listdir(files)

filename == Listing[i]

Iterating == pc = "walk" /\ i <= Len(Listing)

\* not start_processing and filename.startswith(...): the prefix test is
\* applied only while start_processing is False.
PrefixMatches == ~start_processing /\ startswith(filename, StartPrefix(start_number))

\* a file whose name does not end with .xml: nothing happens
SkipOther ==
    /\ Iterating
    /\ ~IsXml(filename)
    /\ i' = i + 1
    /\ UNCHANGED <<files, content, start_number, csv0, sidecar0, csv, sidecar, pc,
                   start_processing, error_log, records, parsed, calls, tested,
                   extract_vars>>

\* an .xml file before processing has started, whose name does not match
SkipBeforeStart ==
    /\ Iterating
    /\ IsXml(filename)
    /\ ~start_processing
    /\ ~PrefixMatches
    /\ tested' = tested \cup {filename}
    /\ i' = i + 1
    /\ UNCHANGED <<files, content, start_number, csv0, sidecar0, csv, sidecar, pc,
                   start_processing, error_log, records, parsed, calls,
                   extract_vars>>

\* The part every processed file shares: lines 82-89 up to the call of
\* parse_xml, and the step to the next file.
Processed ==
    /\ Iterating
    /\ IsXml(filename)
    /\ start_processing \/ PrefixMatches
    /\ start_processing' = TRUE
    /\ tested' = IF start_processing THEN tested ELSE tested \cup {filename}
    /\ parsed' = Append(parsed, filename)
    /\ i' = i + 1
    /\ UNCHANGED <<files, content, start_number, csv0, sidecar0, sidecar, pc,
                   extract_vars>>

\* parse_xml raises: the except clause logs the file.
ProcessRaises ==
    /\ Processed
    /\ parse_xml(content[filename]).exc # NoExc
    /\ error_log' = Append(error_log,
                           error_message(FilePath(filename), parse_xml(content[filename]).exc))
    /\ UNCHANGED <<csv, records, calls>>

\* parse_xml returns []: if records is false, nothing is saved or logged.
ProcessNoRecords ==
    /\ Processed
    /\ parse_xml(content[filename]).exc = NoExc
    /\ parse_xml(content[filename]).records = <<>>
    /\ records' = <<>>
    /\ UNCHANGED <<csv, error_log, calls>>

\* parse_xml returns records and save_records_to_csv writes them.
ProcessSaves ==
    /\ Processed
    /\ parse_xml(content[filename]).exc = NoExc
    /\ parse_xml(content[filename]).records # <<>>
    /\ records' = parse_xml(content[filename]).records
    /\ csv' = save_records_to_csv(records', csv)
    /\ calls' = Append(calls, [file |-> filename, records |-> records', exc |-> NoExc])
    /\ UNCHANGED error_log

\* The failed save with the call outside the try: the exception leaves
\* process_directory, and the run ends there.
ProcessSaveFails_propagates ==
    /\ Iterating
    /\ IsXml(filename)
    /\ start_processing \/ PrefixMatches
    /\ parse_xml(content[filename]).exc = NoExc
    /\ parse_xml(content[filename]).records # <<>>
    /\ start_processing' = TRUE
    /\ tested' = IF start_processing THEN tested ELSE tested \cup {filename}
    /\ parsed' = Append(parsed, filename)
    /\ records' = parse_xml(content[filename]).records
    /\ calls' = Append(calls, [file |-> filename, records |-> records',
                               exc |-> PermissionError])
    /\ pc' = "failed"
    /\ UNCHANGED <<files, content, start_number, csv0, sidecar0, csv, sidecar, i,
                   error_log, extract_vars>>

\* parse_xml returns records and save_records_to_csv cannot open the
\* destination: the call is inside the try, so the except clause logs the file.
ProcessSaveFails ==
    /\ Processed
    /\ parse_xml(content[filename]).exc = NoExc
    /\ parse_xml(content[filename]).records # <<>>
    /\ records' = parse_xml(content[filename]).records
    /\ calls' = Append(calls, [file |-> filename, records |-> records',
                               exc |-> PermissionError])
    /\ error_log' = Append(error_log, error_message(FilePath(filename), PermissionError))
    /\ UNCHANGED csv

\* after the loop, if error_log: the sidecar is opened with 'w' and written
WriteErrorLog ==
    /\ pc = "walk"
    /\ i > Len(Listing)
    /\ error_log # <<>>
    /\ sidecar' = write_error_log(error_log, sidecar)
    /\ pc' = "done"
    /\ UNCHANGED <<files, content, start_number, csv0, sidecar0, csv, i,
                   start_processing, error_log, records, parsed, calls, tested,
                   extract_vars>>

\* after the loop, with an empty error_log: the function returns
Return ==
    /\ pc = "walk"
    /\ i > Len(Listing)
    /\ error_log = <<>>
    /\ pc' = "done"
    /\ UNCHANGED <<files, content, start_number, csv0, sidecar0, csv, sidecar, i,
                   start_processing, error_log, records, parsed, calls, tested,
                   extract_vars>>

Next ==
    \/ SkipOther
    \/ SkipBeforeStart
    \/ ProcessRaises
    \/ ProcessNoRecords
    \/ ProcessSaves
    \/ ProcessSaveFails
    \/ WriteErrorLog
    \/ Return

Spec == Init /\ [][Next]_vars

(* ------------------------------------------------------------------ *)
(* What the claims speak of                                            *)
(* ------------------------------------------------------------------ *)
Range(s) == {s[k] : k \in 1..Len(s)}

\* the retained candidates: the .xml names in sorted order
XmlListing == SelectSeq(Listing, IsXml)

\* a line of the error log or of the sidecar that references the file
Mentions(line, name) ==
    startswith(line, "Error processing " \o FilePath(name) \o ": ")

EntriesFor(log, name) == {k \in 1..Len(log) : Mentions(log[k], name)}

CallsFor(name) == {k \in 1..Len(calls) : calls[k].file = name}

SaveFailed(name) == \E k \in CallsFor(name) : calls[k].exc # NoExc

\* the data rows of the output table
DataRows(output_file) == IF output_file.exists THEN Tail(output_file.lines) ELSE <<>>

\* the rows of the records of the given files, file after file
RECURSIVE RowsOf(_)
RowsOf(names) ==
    IF names = <<>> THEN <<>>
    ELSE CsvRows(parse_xml(content[Head(names)]).records) \o RowsOf(Tail(names))

\* the handled files that yielded at least one record
Yielding == SelectSeq(parsed, LAMBDA f : parse_xml(content[f]).records # <<>>)

\* those whose save did not raise
Saved == SelectSeq(Yielding, LAMBDA f : ~SaveFailed(f))

\* the handled files the except clause was entered for
Failing ==
    SelectSeq(parsed, LAMBDA f : parse_xml(content[f]).exc # NoExc \/ SaveFailed(f))

\* the positions in XmlListing whose name matches the marker's prefix
MarkerMatches ==
    LET xml == XmlListing
        prefix == StartPrefix(start_number)
    IN  {k \in 1..Len(xml) : startswith(xml[k], prefix)}

FirstMatch == CHOOSE k \in MarkerMatches : \A j \in MarkerMatches : k <= j

\* Files before position n are untouched, and the files parsed so far are
\* the files from n on, one after the other, all of them once the walk is over.
StartsAt(n) ==
    LET xml == XmlListing
    IN  /\ \A k \in 1..(n - 1) :
              /\ xml[k] \notin Range(parsed)
              /\ EntriesFor(error_log, xml[k]) = {}
              /\ CallsFor(xml[k]) = {}
        /\ Len(parsed) <= Len(xml) - n + 1
        /\ parsed = SubSeq(xml, n, n + Len(parsed) - 1)
        /\ pc = "done" => Len(parsed) = Len(xml) - n + 1

\* save_records_to_csv is called once per handled file that yielded records,
\* in order, with that file's records, which are not empty.
CalledOncePerYieldingFile ==
    LET yielding == Yielding
    IN  /\ Len(calls) = Len(yielding)
        /\ \A k \in 1..Len(calls) :
              /\ calls[k].file = yielding[k]
              /\ calls[k].records = parse_xml(content[yielding[k]]).records
              /\ calls[k].records # <<>>

(* ------------------------------------------------------------------ *)
(* Claims                                                              *)
(* ------------------------------------------------------------------ *)

\* C1: every handled file whose XML fails to parse contributes no records,
\* has exactly one entry in the error log and, once the run is over, exactly
\* one line in the sidecar file.
C1_ParseFailureLoggedOnce ==
    \A k \in 1..Len(parsed) :
        content[parsed[k]] = Malformed =>
            /\ CallsFor(parsed[k]) = {}
            /\ Cardinality(EntriesFor(error_log, parsed[k])) = 1
            /\ pc = "done" =>
                  /\ sidecar.exists
                  /\ Cardinality(EntriesFor(sidecar.lines, parsed[k])) = 1

C3_HeaderOnceAndFirst ==
    LET appended == RowsOf(Saved)
    IN  /\ csv.exists = (csv0.exists \/ appended # <<>>)
        /\ csv.exists =>
              /\ csv.lines # <<>>
              /\ csv.lines[1] = Header
              /\ \A k \in 2..Len(csv.lines) : csv.lines[k] # Header
        /\ csv0.exists => csv.lines = csv0.lines \o appended
        /\ (~csv0.exists /\ csv.exists) => csv.lines = <<Header>> \o appended

C3_Witness ==
    /\ pc = "done"
    /\ csv0 = PriorCsv
    /\ Len(Saved) >= 2

\* C4, as claimed: with any start-marker whose prefix the Nth .xml file is the
\* first to match, files 1..N-1 are never parsed, saved or logged, and the
\* files from N on are parsed one after the other without a gap.
C4_MarkerSkipsToFirstMatch ==
    (start_number # NoStart /\ MarkerMatches # {}) => StartsAt(FirstMatch)

\* C4, amended: the same for a start-marker other than 0.
C4_NonZeroMarkerSkipsToFirstMatch ==
    (start_number # NoStart /\ start_number # 0 /\ MarkerMatches # {})
        => StartsAt(FirstMatch)

C4_Witness ==
    /\ pc = "done"
    /\ start_number = 1
    /\ MarkerMatches # {}
    /\ FirstMatch = 2
    /\ Len(parsed) = 2
    /\ "pubmed24n0001.xml.md5" \in files

C6_SidecarWrittenAfterWalk ==
    /\ pc = "walk" => sidecar = sidecar0
    /\ LET failing == Failing
       IN  /\ Len(error_log) = Len(failing)
           /\ \A k \in 1..Len(error_log) : Mentions(error_log[k], failing[k])
    /\ (pc = "done" /\ error_log = <<>>) => sidecar = sidecar0
    /\ (pc = "done" /\ error_log # <<>>) =>
          /\ sidecar.exists
          /\ Len(sidecar.lines) = Len(error_log)
          /\ \A k \in 1..Len(error_log) : sidecar.lines[k] = error_log[k] \o "\n"

C6_Witness ==
    /\ pc = "done"
    /\ sidecar0 = PriorSidecar
    /\ Len(error_log) >= 2
    /\ sidecar # sidecar0

\* C7: for the file handled last, if its document is well-formed, parse_xml
\* returned one record per article, in document order, and did not fail.
C7_OneRecordPerArticle ==
    parsed # <<>> =>
        LET doc == content[parsed[Len(parsed)]]
        IN  doc # Malformed =>
                /\ Len(records) = Len(doc.PubmedArticle)
                /\ \A k \in 1..Len(records) : records[k] = Fields(doc.PubmedArticle[k])
                /\ \A k \in 1..Len(records) : ~IsTypeError(records[k].MeshHeading)

\* C8: the loop body never fails on an article, a field whose sub-element is
\* missing is absent, and the article without sub-elements gives the record
\* with five absent fields.
C8_NoFieldFailureAborts ==
    /\ step # "raised"
    /\ step = "appended" =>
          /\ article.PubDate = NoElement => record.Date = None
          /\ article.ArticleTitle = NoElement => record.Title = None
          /\ article.AbstractText = NoElement => record.Abstract = None
          /\ article.MeshHeadingList = NoElement => record.MeshHeading = None
          /\ article.KeywordList = NoElement => record.Keywords = None

\* C9: the date is Year-Month exactly when the publication date exists and
\* its Year and Month children both exist and have text; otherwise it is absent.
C9_DateIffYearAndMonthText ==
    step \notin {"idle", "date"} =>
        IF /\ article.PubDate # NoElement
           /\ article.PubDate.Year # NoElement
           /\ article.PubDate.Month # NoElement
           /\ article.PubDate.Year.text # None
           /\ article.PubDate.Month.text # None
        THEN date = article.PubDate.Year.text \o "-" \o article.PubDate.Month.text
        ELSE date = None

\* C10: with the start-marker 0, as with no start-marker, processing is on
\* from the first file: the prefix test is never applied, and the files parsed
\* are the .xml files from the first on, all of them once the walk is over.
C10_ZeroMarkerProcessesAll ==
    (start_number = 0 \/ start_number = NoStart) =>
        /\ start_processing
        /\ tested = {}
        /\ StartsAt(1)

C10_Witness ==
    /\ pc = "done"
    /\ start_number = 0
    /\ Len(XmlListing) = 3
    /\ XmlListing[1] = "a.xml"
    /\ XmlListing[2] = "pubmed24n0000.xml"
    /\ parsed = XmlListing

====
